---- MODULE Spec2Model ----
(***************************************************************************)
(* Simulation core of the arena survival game (src/src/main.js): the       *)
(* GameManager frame loop, the player, the spawner, the skills, the boss,  *)
(* projectiles, gems and the level-up / game-over / victory flags.         *)
(*                                                                         *)
(* Units.  Time is in milliseconds (Time.deltaTime * 1000).  Player health *)
(* is in 1/2000 HP, so that the regeneration of 0.5 HP/s is 1 unit per ms. *)
(* Enemy and boss health and weapon / skill damage are in 1/1000 HP.       *)
(* slowMoScale is in tenths, WaveManager.healthMult in halves and          *)
(* WaveManager.spawnMult in tenths.  The products of Weapon.upgrade        *)
(* (fireRate * 0.85, damage * 1.1, damage * 1.2) are truncated to these    *)
(* units.                                                                  *)
(*                                                                         *)
(* Geometry.  Positions are floating-point vectors moved by the input      *)
(* vector and by random spawn angles.  The model keeps no position: the    *)
(* outcome of every distance test the code makes in a frame (enemy within  *)
(* collisionDist of the player, projectile within hit distance of an enemy *)
(* or of the boss, orbital overlapping an enemy, gem within collect        *)
(* distance, nearest enemy within weapon range) is an input of the step    *)
(* that makes the test.                                                    *)
(*                                                                         *)
(* Clocks.  Time.update and OrbitalShield.update both read                 *)
(* performance.now(); the model takes the two readings of a frame as       *)
(* equal, so the wall-clock time since an enemy's entry in                 *)
(* OrbitalShield.damageCooldowns is the sum of the frame deltas since the  *)
(* hit.  It is kept with the enemy as sinceHit, capped at damageInterval   *)
(* (an enemy never hit has an expired cooldown).                           *)
(*                                                                         *)
(* Specifications.  Spec is the frame loop with the UI callbacks; SpecLive *)
(* is Spec with frames that keep arriving and menus that are answered;     *)
(* SpecXp is Player.gainXp applied to a player on its own; SpecFine is the *)
(* frame loop at a steady four frames per second, mid-fight.  SpecSkills,  *)
(* SpecSelect, SpecShoot, SpecClosest, SpecWave and SpecWeapon are         *)
(* SkillManager.addSkill, EnemySpawner.selectType, Player.handleShooting,  *)
(* Player.findClosestEnemy, WaveManager.update and Weapon.upgrade applied  *)
(* on their own to the inputs they can get.  Spec starts from a new run,   *)
(* from a run 20 s in with gems on the ground, or from a run at the boss.  *)
(***************************************************************************)
EXTENDS Integers, Sequences, FiniteSets

\* ---------------------------------------------------------------- bounds
MaxFrames == 2
MaxEnemies == 2
MaxProjectiles == 1
MaxXpCalls == 4
MaxSkillCalls == 6
MaxShootCalls == 4
MaxTargets == 3
MaxDist == 3
MaxGameTime == 300000
MaxUpgrades == 10

\* frame deltas the clock can measure: a slow frame, and a long stall (a
\* hidden tab suspends requestAnimationFrame)
DtSet == {500, 60000}

\* the frame delta of a steady four frames per second
DtFine == {250}

\* ------------------------------------------------------ program constants
contactDmgInterval == 500
damageInterval == 500
bossSpawnTime == 60000
PlayerMaxHealth == 200000
healthRegen == 1
XpToNextLevelStart == 20
xpScalingTenths == 15
baseInterval == 800
ProjectileLifetime == 2000
BossMaxHealth == 5000000
BossContactDamage == 100000
BossXpValue == 500
SlowMoWindow == 3000
SlowMoScaleTenths == 2
VictoryBonus == 1000
KillScore == 10

ENEMY_TYPES ==
  [normal |-> [health |-> 3,  contactDamage |-> 20000, xpValue |-> 10, weight |-> 70],
   runner |-> [health |-> 1,  contactDamage |-> 10000, xpValue |-> 8,  weight |-> 20],
   tank   |-> [health |-> 10, contactDamage |-> 40000, xpValue |-> 25, weight |-> 10]]

TypeOrder == <<"normal", "runner", "tank">>

Catalog == {"pistol", "shotgun", "orbital", "thunder", "heal"}

NoBoss == [health |-> 0, isDestroyed |-> FALSE, exists |-> FALSE]
NoWeapon == [level |-> 0, damage |-> 0, fireRate |-> 0, projectileCount |-> 0]

Min(a, b) == IF a < b THEN a ELSE b
Max(a, b) == IF a > b THEN a ELSE b

\* ----------------------------------------------------------------- state
VARIABLES
  pc,          \* position inside animate()/update(); "idle" between frames
  loops,       \* animation-frame callbacks currently scheduled
  deltaTime,   \* Time.deltaTime of the current / last frame
  wave,        \* WaveManager: gameTime, healthMult, spawnMult
  player,      \* Player: health, xp, level, weapons, fire timer
  skills,      \* SkillManager.skills, in insertion order
  enemies,     \* EnemySpawner.enemies
  spawnTimer,  \* EnemySpawner.timer
  projectiles, \* GameManager.projectiles
  gems,        \* GameManager.experienceGems
  boss,        \* GameManager.boss
  gm,          \* GameManager flags and timers
  ui,          \* UIManager: score, kills, open menu, shown screens
  hist         \* history: frames simulated so far, who called animate, boss rewards of the run

vars == <<pc, loops, deltaTime, wave, player, skills, enemies, spawnTimer,
          projectiles, gems, boss, gm, ui, hist>>

\* ------------------------------------------------------------------ Weapon
PistolL1 == [level |-> 1, damage |-> 1000, fireRate |-> 500, projectileCount |-> 1]
ShotgunL1 == [level |-> 1, damage |-> 1500, fireRate |-> 1200, projectileCount |-> 3]

\* Weapon.upgrade for type 'pistol'
PistolUpgrade(w) ==
  [w EXCEPT !.level = @ + 1,
            !.fireRate = (@ * 85) \div 100,
            !.damage = (@ * 11) \div 10]

\* a shotgun upgrade that adds the projectile at the odd levels, for
\* comparison
ShotgunUpgradeOdd(w) ==
  LET l == w.level + 1
  IN  IF l % 2 = 1
      THEN [w EXCEPT !.level = l, !.projectileCount = @ + 1]
      ELSE [w EXCEPT !.level = l, !.damage = (@ * 12) \div 10]

\* Weapon.upgrade for the other type
ShotgunUpgrade(w) ==
  LET l == w.level + 1
  IN  IF l % 2 = 0
      THEN [w EXCEPT !.level = l, !.projectileCount = @ + 1]
      ELSE [w EXCEPT !.level = l, !.damage = (@ * 12) \div 10]

ActiveWeapon(p) == IF p.activeWeapon = "pistol" THEN p.pistol ELSE p.shotgun

\* Weapon.fire: projectileCount new projectiles with the weapon's damage
RECURSIVE Volley(_, _)
Volley(n, dmg) ==
  IF n = 0 THEN <<>> ELSE <<[damage |-> dmg, age |-> 0]>> \o Volley(n - 1, dmg)

\* ------------------------------------------------------------------ Skills
NewSkill(kind) ==
  IF kind = "orbital"
  THEN [kind |-> "orbital", level |-> 1, damage |-> 10000, cooldown |-> 0, timer |-> 0]
  ELSE [kind |-> "thunder", level |-> 1, damage |-> 50000, cooldown |-> 3000, timer |-> 0]

\* OrbitalShield.upgrade / ThunderStrike.upgrade
SkillUpgrade(s) ==
  IF s.kind = "orbital"
  THEN [s EXCEPT !.level = @ + 1, !.damage = @ + 5000]
  ELSE [s EXCEPT !.level = @ + 1, !.cooldown = Max(1000, @ - 300), !.damage = @ + 15000]

HasSkill(sks, kind) == \E i \in 1..Len(sks) : sks[i].kind = kind

\* an addSkill that registers a new instance on every call, for comparison
AddSkillAgain(sks, kind) ==
  IF kind \in {"orbital", "thunder"} THEN Append(sks, NewSkill(kind)) ELSE sks

\* SkillManager.addSkill
AddSkill(sks, kind) ==
  IF HasSkill(sks, kind)
  THEN [i \in 1..Len(sks) |-> IF sks[i].kind = kind THEN SkillUpgrade(sks[i]) ELSE sks[i]]
  ELSE IF kind \in {"orbital", "thunder"} THEN Append(sks, NewSkill(kind)) ELSE sks

\* ------------------------------------------------------------------ Player
NewPlayer ==
  [currentHealth |-> PlayerMaxHealth, maxHealth |-> PlayerMaxHealth,
   level |-> 1, currentXp |-> 0, xpToNextLevel |-> XpToNextLevelStart,
   fireTimer |-> 0, pistol |-> PistolL1, shotgun |-> NoWeapon,
   activeWeapon |-> "pistol"]

\* Player.takeDamage
TakeDamage(p, amt) == [p EXCEPT !.currentHealth = @ - amt]

\* Player.heal
Heal(p, amt) == [p EXCEPT !.currentHealth = Min(@ + amt, p.maxHealth)]

\* Player.healPercent
HealPercent(p, pct) == Heal(p, (p.maxHealth * pct) \div 100)

\* Player.handleRegen
HandleRegen(p, dt) ==
  IF p.currentHealth < p.maxHealth
  THEN [p EXCEPT !.currentHealth = Min(@ + healthRegen * dt, p.maxHealth)]
  ELSE p

\* a gainXp that drops the overflow on a level-up, for comparison
GainXpNoCarry(p, amt) ==
  LET x == p.currentXp + amt
  IN  IF x >= p.xpToNextLevel
      THEN [p EXCEPT !.currentXp = 0,
                     !.level = @ + 1,
                     !.xpToNextLevel = (@ * xpScalingTenths) \div 10]
      ELSE [p EXCEPT !.currentXp = x]

\* Player.gainXp, without the call of triggerLevelUp (see LevelsUp)
GainXp(p, amt) ==
  LET x == p.currentXp + amt
  IN  IF x >= p.xpToNextLevel
      THEN [p EXCEPT !.currentXp = x - p.xpToNextLevel,
                     !.level = @ + 1,
                     !.xpToNextLevel = (@ * xpScalingTenths) \div 10]
      ELSE [p EXCEPT !.currentXp = x]

\* whether Player.gainXp(amt) calls GameManager.triggerLevelUp
LevelsUp(p, amt) == p.currentXp + amt >= p.xpToNextLevel

\* an applyUpgrade without effect on the player, for comparison
ApplyUpgradeNothing(p, id) == p

\* Player.upgradePistol / upgradeShotgun followed by switchWeapon, heal,
\* addSkill: GameManager.applyUpgrade on the player; skills are separate
ApplyUpgradePlayer(p, id) ==
  CASE id = "pistol" ->
         [p EXCEPT !.pistol = PistolUpgrade(@), !.activeWeapon = "pistol"]
    [] id = "shotgun" ->
         [p EXCEPT !.shotgun = IF @.level = 0 THEN ShotgunL1 ELSE ShotgunUpgrade(@),
                   !.activeWeapon = "shotgun"]
    [] id = "heal" -> HealPercent(p, 50)
    [] OTHER -> p

ApplyUpgradeSkills(sks, id) ==
  IF id \in {"orbital", "thunder"} THEN AddSkill(sks, id) ELSE sks

\* GameManager.generateUpgrades: 4 of the 5 options, at random
GenerateUpgrades == {S \in SUBSET Catalog : Cardinality(S) = 4}

\* ------------------------------------------------------------ WaveManager
NewWave == [gameTime |-> 0, healthMult |-> 2, spawnMult |-> 10]

\* a WaveManager.update without the floor of 0.3, for comparison
WaveUpdateUnclamped(w, dt) ==
  LET t == w.gameTime + dt
  IN  [gameTime |-> t,
       healthMult |-> 2 + (t \div 60000),
       spawnMult |-> 10 - (t \div 30000)]

\* WaveManager.update
WaveUpdate(w, dt) ==
  LET t == w.gameTime + dt
  IN  [gameTime |-> t,
       healthMult |-> 2 + (t \div 60000),
       spawnMult |-> Max(3, 10 - (t \div 30000))]

\* ------------------------------------------------------------ EnemySpawner
\* EnemySpawner.totalWeight
RECURSIVE WeightFrom(_)
WeightFrom(i) ==
  IF i > Len(TypeOrder) THEN 0
  ELSE ENEMY_TYPES[TypeOrder[i]].weight + WeightFrom(i + 1)

TotalWeight == WeightFrom(1)

\* a selectType that compares with roll <= cum, for comparison
RECURSIVE SelectFromInclusive(_, _, _)
SelectFromInclusive(roll, i, cum) ==
  IF i > Len(TypeOrder) THEN "normal"
  ELSE LET c == cum + ENEMY_TYPES[TypeOrder[i]].weight
       IN  IF roll <= c THEN TypeOrder[i] ELSE SelectFromInclusive(roll, i + 1, c)

\* EnemySpawner.selectType for a roll in [0, totalWeight)
RECURSIVE SelectFrom(_, _, _)
SelectFrom(roll, i, cum) ==
  IF i > Len(TypeOrder) THEN "normal"
  ELSE LET c == cum + ENEMY_TYPES[TypeOrder[i]].weight
       IN  IF roll < c THEN TypeOrder[i] ELSE SelectFrom(roll, i + 1, c)

SelectType(roll) == SelectFrom(roll, 1, 0)

\* rolls of Math.random() * totalWeight: one that selects a normal enemy, one
\* that selects a tank
RollSet == {35, 95}

\* an enemy started without the multiplier, for comparison
NewEnemyUnscaled(type, healthMult) ==
  LET h == ENEMY_TYPES[type].health * 1000
  IN  [type |-> type, health |-> h, maxHealth |-> h, sinceHit |-> damageInterval]

\* new Enemy(type) followed by Enemy.start(pos, healthMult)
NewEnemy(type, healthMult) ==
  LET h == ((ENEMY_TYPES[type].health * healthMult) \div 2) * 1000
  IN  [type |-> type, health |-> h, maxHealth |-> h, sinceHit |-> damageInterval]

\* the wall clock moves on by dt: the age of every entry of
\* OrbitalShield.damageCooldowns grows by dt
Tick(es, dt) ==
  [i \in 1..Len(es) |-> [es[i] EXCEPT !.sinceHit = Min(damageInterval, @ + dt)]]

\* Enemy.takeDamage
EnemyTakeDamage(e, amt) == [e EXCEPT !.health = @ - amt]

\* a removal that removes nothing, for comparison
KeepAll(s, gone) == s

\* the sequence without the elements at the indices in gone
RemoveAt(s, gone) ==
  LET F[i \in 0..Len(s)] ==
        IF i = 0 THEN <<>>
        ELSE IF i \in gone THEN F[i - 1] ELSE Append(F[i - 1], s[i])
  IN  F[Len(s)]

\* -------------------------------------------------------------------- Init
NewGm ==
  [isGameOver |-> FALSE, isPaused |-> FALSE, isVictory |-> FALSE,
   bossSpawned |-> FALSE, slowMoScale |-> 10, slowMoTimer |-> 0,
   contactDmgTimer |-> 0]

NewUi ==
  [score |-> 0, kills |-> 0, menu |-> {}, gameOverShown |-> FALSE,
   victoryShown |-> FALSE]

\* history of the run: frames simulated, who made the last animate() call,
\* the boss bonus and boss XP granted, (for calls of Player.gainXp made
\* directly on a player) the number of calls and the last amount, the
\* simulated time since the last application of enemy contact damage and of
\* boss contact damage (capped at contactDmgInterval), and for the last skill
\* pass the enemies an orbital overlapped and the enemies the shield damaged
\* (indices into the collection the pass started with) and, if the thunder
\* struck, the health its target had when it was picked, and (for calls of
\* SkillManager.addSkill made directly on a registry) the number of calls
\* and the last kind, and (for calls of EnemySpawner.selectType made
\* directly) the last roll and the type it returned, and (for calls of
\* Player.handleShooting made directly) the number of calls, the outcome of
\* the last range test and the time handed to the calls since the last one
\* that added a projectile, and (for a call of Player.findClosestEnemy made
\* directly) the distances of the enemies in iteration order and the index
\* of the enemy returned, 0 for null, and the boss update and
\* the collision passes that update() has run in the current frame, in order,
\* and for the last projectile-enemy pass the enemies each projectile had
\* within projectileHitDist, and the time handed to EnemySpawner.update since
\* the last call that added an enemy, and for the last gem pass the gems
\* within gemCollectDist of the player, and (for calls of Weapon.upgrade
\* made directly) the number of calls on each weapon, and the number of
\* times destroy() has run on the Boss object created last, and the number
\* of upgrades applied to the player of the run
NewHist ==
  [frames |-> 0, call |-> "loop", bossBonus |-> 0, bossXp |-> 0,
   xpCalls |-> 0, amt |-> 0, skillCalls |-> 0, kind |-> "",
   roll |-> 0, picked |-> "",
   shootCalls |-> 0, inRange |-> FALSE, sinceFire |-> 0,
   dists |-> <<>>, closest |-> 0,
   sinceEnemy |-> contactDmgInterval, sinceBoss |-> contactDmgInterval,
   near |-> {}, hit |-> {}, bolt |-> <<>>, passes |-> <<>>, reach |-> <<>>,
   sinceSpawn |-> 0, gemReach |-> {},
   upgrades |-> [pistol |-> 0, shotgun |-> 0], bossDestroys |-> 0,
   applied |-> 0]

\* the state after new GameManager(), awake() and start(); run() then calls
\* animate() for the first time: that call is the one scheduled callback
InitFresh ==
  /\ pc = "idle" /\ loops = 1 /\ deltaTime = 0
  /\ wave = NewWave
  /\ player = NewPlayer
  /\ skills = <<>>
  /\ enemies = <<>> /\ spawnTimer = 0
  /\ projectiles = <<>> /\ gems = <<>>
  /\ boss = NoBoss
  /\ gm = NewGm
  /\ ui = NewUi
  /\ hist = NewHist

\* The boss has 5000 HP and a projectile takes 1 to 2 HP off it, so the end
\* of a boss fight lies thousands of frames after InitFresh.  InitLate is
\* the run 50 minutes in, at a frame boundary: the boss was spawned at 60 s
\* and has been shot down to its last HP with the level-1 pistol; the player
\* either never levelled, or collected two tank gems (25 + 25 XP: level 3,
\* 0 XP, threshold 45, two kills) and chose the two skills; the player is
\* down to 15 HP, struck by an enemy in the frame that just ended; at most
\* one enemy, worn down to its last HP, is in the arena.
LateEnemies ==
  {<<>>,
   <<[type |-> "runner", health |-> 1000, maxHealth |-> 26000,
      sinceHit |-> damageInterval]>>}

InitLate ==
  /\ pc = "idle" /\ loops = 1 /\ deltaTime = 500
  /\ wave = WaveUpdate([NewWave EXCEPT !.gameTime = 3000000 - 500], 500)
  /\ \E levelled \in BOOLEAN :
       /\ player = IF levelled
                   THEN [NewPlayer EXCEPT !.level = 3, !.xpToNextLevel = 45,
                                          !.currentHealth = 30000]
                   ELSE [NewPlayer EXCEPT !.currentHealth = 30000]
       /\ skills = IF levelled
                   THEN <<NewSkill("orbital"), NewSkill("thunder")>>
                   ELSE <<>>
       /\ ui = IF levelled THEN [NewUi EXCEPT !.score = 20, !.kills = 2] ELSE NewUi
  /\ enemies \in LateEnemies /\ spawnTimer = 0
  /\ projectiles = <<>> /\ gems = <<>>
  /\ boss = [health |-> 1000, isDestroyed |-> FALSE, exists |-> TRUE]
  /\ gm = [NewGm EXCEPT !.bossSpawned = TRUE]
  /\ hist = [NewHist EXCEPT !.sinceEnemy = 0,
                            !.applied = player.level - 1]

\* a snapshot 20 s into a run: four kills (a normal enemy, a runner, a tank,
\* a normal enemy), the gems of the first two collected (18 XP of the 20 of
\* level 1), the gems of the last two on the ground, no enemy in the arena
InitEarly ==
  /\ pc = "idle" /\ loops = 1 /\ deltaTime = 500
  /\ wave = WaveUpdate([NewWave EXCEPT !.gameTime = 20000 - 500], 500)
  /\ player = [NewPlayer EXCEPT !.currentXp = 18]
  /\ skills = <<>>
  /\ enemies = <<>> /\ spawnTimer = 0
  /\ projectiles = <<>>
  /\ gems = <<[xpValue |-> ENEMY_TYPES["tank"].xpValue, isCollected |-> FALSE],
              [xpValue |-> ENEMY_TYPES["normal"].xpValue, isCollected |-> FALSE]>>
  /\ boss = NoBoss
  /\ gm = NewGm
  /\ ui = [NewUi EXCEPT !.score = 40, !.kills = 4]
  /\ hist = NewHist

Init == InitFresh \/ InitLate \/ InitEarly

\* ----------------------------------------------------------------- animate
\* GameManager.animate of a finished game: the callback returns without
\* scheduling itself again
AnimateStop ==
  /\ pc = "idle" /\ loops >= 1
  /\ gm.isGameOver /\ ~gm.isVictory
  /\ loops' = loops - 1
  /\ UNCHANGED <<pc, deltaTime, wave, player, skills, enemies, spawnTimer,
                 projectiles, gems, boss, gm, ui, hist>>

\* an animate that calls update() although the game is paused, for comparison
AnimatePausedUpdates(D) ==
  /\ pc = "idle" /\ loops >= 1
  /\ ~(gm.isGameOver /\ ~gm.isVictory)
  /\ gm.isPaused
  /\ hist.frames < MaxFrames
  /\ \E dt \in D :
       /\ deltaTime' = dt
       /\ enemies' = Tick(enemies, dt)
  /\ pc' = "wave"
  /\ hist' = [hist EXCEPT !.call = "loop", !.frames = @ + 1]
  /\ UNCHANGED <<loops, wave, player, skills, spawnTimer,
                 projectiles, gems, boss, gm, ui>>

\* GameManager.animate while paused, with a frame delta of D: the clock is
\* read, update() is skipped
AnimatePausedOn(D) ==
  /\ pc = "idle" /\ loops >= 1
  /\ ~(gm.isGameOver /\ ~gm.isVictory)
  /\ gm.isPaused
  /\ \E dt \in D :
       /\ deltaTime' = dt
       /\ enemies' = Tick(enemies, dt)
  /\ hist' = [hist EXCEPT !.call = "loop"]
  /\ UNCHANGED <<pc, loops, wave, player, skills, spawnTimer,
                 projectiles, gems, boss, gm, ui>>

AnimatePaused == AnimatePausedOn(DtSet)

\* GameManager.animate, with a frame delta of D: the clock is read and
\* update() starts
AnimateRunOn(D) ==
  /\ pc = "idle" /\ loops >= 1
  /\ ~(gm.isGameOver /\ ~gm.isVictory)
  /\ ~gm.isPaused
  /\ hist.frames < MaxFrames
  /\ \E dt \in D :
       /\ deltaTime' = dt
       /\ enemies' = Tick(enemies, dt)
  /\ pc' = "wave"
  /\ hist' = [hist EXCEPT !.call = "loop", !.frames = @ + 1,
                          !.sinceEnemy = Min(contactDmgInterval, @ + deltaTime'),
                          !.sinceBoss = Min(contactDmgInterval, @ + deltaTime'),
                          !.passes = <<>>]
  /\ UNCHANGED <<loops, wave, player, skills, spawnTimer,
                 projectiles, gems, boss, gm, ui>>

AnimateRun == AnimateRunOn(DtSet)

\* ------------------------------------------------------------------ update
\* this.waveManager.update(dt)
UpdateWave ==
  /\ pc = "wave"
  /\ wave' = WaveUpdate(wave, deltaTime)
  /\ pc' = "player"
  /\ UNCHANGED <<loops, deltaTime, player, skills, enemies, spawnTimer,
                 projectiles, gems, boss, gm, ui, hist>>

\* a findClosestEnemy that compares with d <= minDist, for comparison
RECURSIVE ClosestFromInclusive(_, _, _)
ClosestFromInclusive(ds, i, closest) ==
  IF i > Len(ds) THEN closest
  ELSE IF closest = 0 \/ ds[i] <= ds[closest]
       THEN ClosestFromInclusive(ds, i + 1, i)
       ELSE ClosestFromInclusive(ds, i + 1, closest)

\* the loop of Player.findClosestEnemy over the distances ds of the enemies,
\* from enemy i on: closest is the index held so far, 0 for null, and minDist
\* is then the distance of that enemy, Infinity while closest is null
RECURSIVE ClosestFrom(_, _, _)
ClosestFrom(ds, i, closest) ==
  IF i > Len(ds) THEN closest
  ELSE IF closest = 0 \/ ds[i] < ds[closest]
       THEN ClosestFrom(ds, i + 1, i)
       ELSE ClosestFrom(ds, i + 1, closest)

\* Player.findClosestEnemy
FindClosestEnemy(ds) == ClosestFrom(ds, 1, 0)

\* a handleShooting that fires without resetting fireTimer, for comparison
HandleShootingNoReset(p, dt, nEnemies, inRange) ==
  LET t == p.fireTimer + dt
      w == ActiveWeapon(p)
  IN  IF t < w.fireRate \/ nEnemies = 0 \/ ~inRange
      THEN [player |-> [p EXCEPT !.fireTimer = t], fired |-> <<>>]
      ELSE [player |-> [p EXCEPT !.fireTimer = t],
            fired |-> Volley(w.projectileCount, w.damage)]

\* Player.handleShooting: inRange is the outcome of the range test on the
\* nearest enemy
HandleShooting(p, dt, nEnemies, inRange) ==
  LET t == p.fireTimer + dt
      w == ActiveWeapon(p)
  IN  IF t < w.fireRate \/ nEnemies = 0 \/ ~inRange
      THEN [player |-> [p EXCEPT !.fireTimer = t], fired |-> <<>>]
      ELSE [player |-> [p EXCEPT !.fireTimer = 0],
            fired |-> Volley(w.projectileCount, w.damage)]

\* this.player.update(dt): movement, shooting, regeneration
UpdatePlayer ==
  /\ pc = "player"
  /\ \E inRange \in BOOLEAN :
       LET r == HandleShooting(player, deltaTime, Len(enemies), inRange)
       IN  /\ Len(projectiles) + Len(r.fired) <= MaxProjectiles
           /\ inRange => Len(enemies) > 0
           /\ player' = HandleRegen(r.player, deltaTime)
           /\ projectiles' = projectiles \o r.fired
  /\ pc' = "spawner"
  /\ UNCHANGED <<loops, deltaTime, wave, skills, enemies, spawnTimer,
                 gems, boss, gm, ui, hist>>

\* an EnemySpawner.update that spawns without resetting the timer, for
\* comparison
UpdateSpawnerNoReset ==
  /\ pc = "spawner"
  /\ LET interval == (baseInterval * wave.spawnMult) \div 10
         t == spawnTimer + deltaTime
     IN  IF t >= interval
         THEN /\ Len(enemies) < MaxEnemies
              /\ spawnTimer' = t
              /\ \E roll \in RollSet :
                   enemies' = Append(enemies, NewEnemy(SelectType(roll), wave.healthMult))
         ELSE /\ spawnTimer' = t
              /\ UNCHANGED enemies
  /\ hist' = [hist EXCEPT !.sinceSpawn =
                IF Len(enemies') > Len(enemies) THEN 0 ELSE @ + deltaTime]
  /\ pc' = "skills"
  /\ UNCHANGED <<loops, deltaTime, wave, player, skills, projectiles,
                 gems, boss, gm, ui>>

\* an EnemySpawner.update that spawns every 4 s while the boss is alive, for
\* comparison
UpdateSpawnerDuel ==
  /\ pc = "spawner"
  /\ LET interval == IF boss.exists /\ ~boss.isDestroyed
                     THEN 5 * baseInterval
                     ELSE (baseInterval * wave.spawnMult) \div 10
         t == spawnTimer + deltaTime
     IN  IF t >= interval
         THEN /\ Len(enemies) < MaxEnemies
              /\ spawnTimer' = 0
              /\ \E roll \in RollSet :
                   enemies' = Append(enemies, NewEnemy(SelectType(roll), wave.healthMult))
         ELSE /\ spawnTimer' = t
              /\ UNCHANGED enemies
  /\ hist' = [hist EXCEPT !.sinceSpawn =
                IF Len(enemies') > Len(enemies) THEN 0 ELSE @ + deltaTime]
  /\ pc' = "skills"
  /\ UNCHANGED <<loops, deltaTime, wave, player, skills, projectiles,
                 gems, boss, gm, ui>>

\* EnemySpawner.update: the timer, at most one spawn, the enemies move
UpdateSpawner ==
  /\ pc = "spawner"
  /\ LET interval == (baseInterval * wave.spawnMult) \div 10
         t == spawnTimer + deltaTime
     IN  IF t >= interval
         THEN /\ Len(enemies) < MaxEnemies
              /\ spawnTimer' = 0
              /\ \E roll \in RollSet :
                   enemies' = Append(enemies, NewEnemy(SelectType(roll), wave.healthMult))
         ELSE /\ spawnTimer' = t
              /\ UNCHANGED enemies
  /\ hist' = [hist EXCEPT !.sinceSpawn =
                IF Len(enemies') > Len(enemies) THEN 0 ELSE @ + deltaTime]
  /\ pc' = "skills"
  /\ UNCHANGED <<loops, deltaTime, wave, player, skills, projectiles,
                 gems, boss, gm, ui>>

\* OrbitalShield.update: near is the set of enemies an orbital overlaps.
\* Enemies are visited in order; an enemy whose cooldown has expired is
\* damaged and its cooldown starts; the first death ends the call.
RECURSIVE OrbitalScan(_, _, _, _)
OrbitalScan(es, k, near, dmg) ==
  IF k > Len(es) THEN [enemies |-> es, died |-> 0]
  ELSE IF k \in near /\ es[k].sinceHit >= damageInterval
       THEN LET es2 == [es EXCEPT ![k] = [EnemyTakeDamage(@, dmg) EXCEPT !.sinceHit = 0]]
            IN  IF es2[k].health <= 0
                THEN [enemies |-> es2, died |-> k]
                ELSE OrbitalScan(es2, k + 1, near, dmg)
       ELSE OrbitalScan(es, k + 1, near, dmg)

\* ThunderStrike.update: pick is the index Math.random() selects among the
\* enemies of the array that are not marked destroyed
ThunderUpdate(sk, es, dt, pick) ==
  LET t == sk.timer + dt
  IN  IF t >= sk.cooldown /\ Len(es) > 0
      THEN LET es2 == [es EXCEPT ![pick] = EnemyTakeDamage(@, sk.damage)]
           IN  [skill |-> [sk EXCEPT !.timer = 0], enemies |-> es2,
                died |-> IF es2[pick].health <= 0 THEN pick ELSE 0]
      ELSE [skill |-> [sk EXCEPT !.timer = t], enemies |-> es, died |-> 0]

\* one skill.update(dt, ...) call
SkillUpdate(sk, es, dt, near, pick) ==
  IF sk.kind = "orbital"
  THEN LET r == OrbitalScan(es, 1, near, sk.damage)
       IN  [skill |-> sk, enemies |-> r.enemies, died |-> r.died]
  ELSE ThunderUpdate(sk, es, dt, pick)

\* SkillManager.update: every skill in insertion order, the non-null results
\* collected; a result is the index of the enemy object it names
RECURSIVE SkillsRun(_, _, _, _, _, _, _)
SkillsRun(sks, i, es, results, dt, near, pick) ==
  IF i > Len(sks) THEN [skills |-> sks, enemies |-> es, results |-> results]
  ELSE LET r == SkillUpdate(sks[i], es, dt, near, pick)
       IN  SkillsRun([sks EXCEPT ![i] = r.skill], i + 1, r.enemies,
                     IF r.died = 0 THEN results ELSE Append(results, r.died),
                     dt, near, pick)

\* GameManager.spawnGem for each enemy of a list of kills
DropGems(types) ==
  [i \in 1..Len(types) |->
     [xpValue |-> ENEMY_TYPES[types[i]].xpValue, isCollected |-> FALSE]]

\* GameManager.update, "Update skills": the skills run, then for every result
\* the enemy is removed (if still there) and score, kill count and gem follow
UpdateSkills ==
  /\ pc = "skills"
  /\ \E near \in SUBSET (1..Len(enemies)), pick \in 1..Max(1, Len(enemies)) :
       LET r == SkillsRun(skills, 1, enemies, <<>>, deltaTime, near, pick)
           n == Len(r.results)
           gone == {r.results[i] : i \in 1..n}
           drops == DropGems([i \in 1..n |-> r.enemies[r.results[i]].type])
           ti == IF HasSkill(skills, "thunder")
                 THEN CHOOSE i \in 1..Len(skills) : skills[i].kind = "thunder"
                 ELSE 0
           seen == SkillsRun(SubSeq(skills, 1, ti - 1), 1, enemies, <<>>,
                             deltaTime, near, pick).enemies
           struck == ti # 0 /\ r.skills[ti].timer = 0 /\ Len(enemies) > 0
       IN  /\ skills' = r.skills
           /\ enemies' = RemoveAt(r.enemies, gone)
           /\ ui' = [ui EXCEPT !.score = @ + KillScore * n, !.kills = @ + n]
           /\ gems' = gems \o drops
           /\ hist' = [hist EXCEPT
                         !.near = IF HasSkill(skills, "orbital") THEN near ELSE {},
                         !.hit = {k \in 1..Len(enemies) : r.enemies[k].sinceHit = 0},
                         !.bolt = IF struck THEN <<seen[pick].health>> ELSE <<>>]
  /\ pc' = "entities"
  /\ UNCHANGED <<loops, deltaTime, wave, player, spawnTimer, projectiles,
                 boss, gm>>

\* an updateProjectiles that ages the projectiles and removes none, for
\* comparison
UpdateProjectilesKeep(ps, dt) ==
  [i \in 1..Len(ps) |-> [ps[i] EXCEPT !.age = @ + dt]]

\* Projectile.update for every projectile, the expired ones removed
UpdateProjectiles(ps, dt) ==
  LET aged == [i \in 1..Len(ps) |-> [ps[i] EXCEPT !.age = @ + dt]]
      Live(p) == p.age < ProjectileLifetime
  IN  SelectSeq(aged, Live)

\* GameManager.updateGems: the collected gems are removed
UpdateGems(gs) ==
  LET Kept(g) == ~g.isCollected
  IN  SelectSeq(gs, Kept)

\* this.updateProjectiles(dt); this.updateGems(dt)
UpdateEntities ==
  /\ pc = "entities"
  /\ projectiles' = UpdateProjectiles(projectiles, deltaTime)
  /\ gems' = UpdateGems(gems)
  /\ pc' = "bossSpawn"
  /\ UNCHANGED <<loops, deltaTime, wave, player, skills, enemies, spawnTimer,
                 boss, gm, ui, hist>>

\* a spawnBoss that does not set the flag, for comparison
SpawnBossUnflagged(g) == g

\* GameManager.spawnBoss on the flags
SpawnBossGm(g) == [g EXCEPT !.bossSpawned = TRUE]

\* GameManager.update, "Boss spawn check", and GameManager.spawnBoss
BossSpawnCheck ==
  /\ pc = "bossSpawn"
  /\ IF ~gm.bossSpawned /\ wave.gameTime >= bossSpawnTime
     THEN /\ gm' = SpawnBossGm(gm)
          /\ boss' = [health |-> BossMaxHealth, isDestroyed |-> FALSE, exists |-> TRUE]
          /\ hist' = [hist EXCEPT !.bossDestroys = 0]
     ELSE UNCHANGED <<gm, boss, hist>>
  /\ pc' = "boss"
  /\ UNCHANGED <<loops, deltaTime, wave, player, skills, enemies, spawnTimer,
                 projectiles, gems, ui>>

\* GameManager.gameOver on the flags
GameOverGm(g) == [g EXCEPT !.isGameOver = TRUE, !.isPaused = TRUE]

\* GameManager.triggerVictory on the flags
TriggerVictoryGm(g) ==
  [g EXCEPT !.isVictory = TRUE, !.slowMoScale = SlowMoScaleTenths,
            !.slowMoTimer = SlowMoWindow]

\* a destroy that leaves the boss unmarked, for comparison
BossDestroyUnmarked(b) == b

\* Boss.destroy
BossDestroy(b) == [b EXCEPT !.isDestroyed = TRUE]

\* the projectile loop of checkBossCollisions, from the last projectile down:
\* hits is the set of projectiles within 3.0 of the boss
RECURSIVE BossScan(_, _, _, _, _)
BossScan(i, ps, gone, health, hits) ==
  IF i = 0 THEN [gone |-> gone, health |-> health, died |-> FALSE]
  ELSE IF i \in hits
       THEN LET h == health - ps[i].damage
            IN  IF h <= 0
                THEN [gone |-> gone \cup {i}, health |-> h, died |-> TRUE]
                ELSE BossScan(i - 1, ps, gone \cup {i}, h, hits)
       ELSE BossScan(i - 1, ps, gone, health, hits)

\* GameManager.update, "Update boss": Boss.update(dt * slowMoScale) moves the
\* boss, then checkBossCollisions; a kill runs triggerVictory
UpdateBoss ==
  /\ pc = "boss"
  /\ IF boss.exists /\ ~boss.isDestroyed
     THEN \E touch \in BOOLEAN, hits \in SUBSET (1..Len(projectiles)) :
            LET t == gm.contactDmgTimer + deltaTime
                strike == touch /\ t >= contactDmgInterval
                p1 == IF strike THEN TakeDamage(player, BossContactDamage) ELSE player
                dead == strike /\ p1.currentHealth <= 0
                g1 == [gm EXCEPT !.contactDmgTimer =
                                   IF strike THEN 0 ELSE IF touch THEN t ELSE @]
                g2 == IF dead THEN GameOverGm(g1) ELSE g1
                r == BossScan(Len(projectiles), projectiles, {}, boss.health, hits)
                up == r.died /\ LevelsUp(p1, BossXpValue)
            IN  /\ projectiles' = RemoveAt(projectiles, r.gone)
                /\ boss' = IF r.died
                           THEN BossDestroy([boss EXCEPT !.health = r.health])
                           ELSE [boss EXCEPT !.health = r.health]
                /\ player' = IF r.died THEN GainXp(p1, BossXpValue) ELSE p1
                /\ skills' = IF dead THEN <<>> ELSE skills
                /\ gm' = IF r.died
                         THEN [TriggerVictoryGm(g2) EXCEPT !.isPaused = @ \/ up]
                         ELSE g2
                /\ \E menu \in (IF up THEN GenerateUpgrades ELSE {ui.menu}) :
                     ui' = [ui EXCEPT !.gameOverShown = @ \/ dead,
                                      !.menu = menu,
                                      !.score = IF r.died THEN @ + VictoryBonus ELSE @,
                                      !.kills = IF r.died THEN @ + 1 ELSE @]
                /\ hist' = [hist EXCEPT
                              !.bossBonus = IF r.died THEN @ + VictoryBonus ELSE @,
                              !.bossXp = IF r.died THEN @ + BossXpValue ELSE @,
                              !.sinceBoss = IF strike THEN 0 ELSE @,
                              !.bossDestroys = IF r.died THEN @ + 1 ELSE @,
                              !.passes = @ \o <<"bossUpdate", "playerBoss",
                                                "projectileBoss">>]
     ELSE UNCHANGED <<projectiles, boss, player, skills, gm, ui, hist>>
  /\ pc' = "slowmo"
  /\ UNCHANGED <<loops, deltaTime, wave, enemies, spawnTimer, gems>>

\* GameManager.update, "Slow-mo timer", and showVictoryScreen
SlowMoStep ==
  /\ pc = "slowmo"
  /\ IF gm.slowMoTimer > 0
     THEN LET t == gm.slowMoTimer - deltaTime
          IN  IF t <= 0
              THEN /\ gm' = [gm EXCEPT !.slowMoTimer = t, !.slowMoScale = 10,
                                       !.isPaused = TRUE]
                   /\ skills' = <<>>
                   /\ ui' = [ui EXCEPT !.victoryShown = TRUE]
              ELSE /\ gm' = [gm EXCEPT !.slowMoTimer = t]
                   /\ UNCHANGED <<skills, ui>>
     ELSE UNCHANGED <<gm, skills, ui>>
  /\ pc' = "contact"
  /\ UNCHANGED <<loops, deltaTime, wave, player, enemies, spawnTimer,
                 projectiles, gems, boss, hist>>

\* the sum of the contact damage of the enemies at the indices in S
RECURSIVE ContactSum(_, _)
ContactSum(es, S) ==
  IF S = {} THEN 0
  ELSE LET k == CHOOSE x \in S : TRUE
       IN  ENEMY_TYPES[es[k].type].contactDamage + ContactSum(es, S \ {k})

\* GameManager.checkPlayerEnemyCollisions(dt): touching is the set of enemies
\* within collisionDist of the player
CheckPlayerEnemy ==
  /\ pc = "contact"
  /\ \E touching \in SUBSET (1..Len(enemies)) :
       LET t == gm.contactDmgTimer + deltaTime
           strike == touching # {} /\ t >= contactDmgInterval
           p1 == IF strike THEN TakeDamage(player, ContactSum(enemies, touching))
                 ELSE player
           dead == strike /\ p1.currentHealth <= 0
           g1 == [gm EXCEPT !.contactDmgTimer = IF strike THEN 0 ELSE t]
       IN  /\ player' = p1
           /\ gm' = IF dead THEN GameOverGm(g1) ELSE g1
           /\ skills' = IF dead THEN <<>> ELSE skills
           /\ ui' = [ui EXCEPT !.gameOverShown = @ \/ dead]
           /\ hist' = [hist EXCEPT !.sinceEnemy = IF strike THEN 0 ELSE @,
                                    !.passes = Append(@, "playerEnemy")]
  /\ pc' = "projEnemy"
  /\ UNCHANGED <<loops, deltaTime, wave, enemies, spawnTimer, projectiles,
                 gems, boss>>

\* the largest element of a non-empty set of indices
MaxOf(S) == CHOOSE x \in S : \A y \in S : y <= x

\* a projectile loop that does not leave the enemy loop at a hit, for
\* comparison
RECURSIVE ProjScanAll(_, _, _, _, _, _, _)
ProjScanAll(i, ps, es, goneP, goneE, kills, near) ==
  IF i = 0 THEN [enemies |-> es, goneP |-> goneP, goneE |-> goneE, kills |-> kills]
  ELSE LET cand == near[i] \ goneE
           es2 == [k \in 1..Len(es) |->
                     IF k \in cand THEN EnemyTakeDamage(es[k], ps[i].damage)
                     ELSE es[k]]
           dead == {k \in cand : es2[k].health <= 0}
           K[k \in 0..Len(es)] ==
             IF k = 0 THEN kills
             ELSE IF k \in dead THEN Append(K[k - 1], es2[k].type) ELSE K[k - 1]
       IN  IF cand = {}
           THEN ProjScanAll(i - 1, ps, es, goneP, goneE, kills, near)
           ELSE ProjScanAll(i - 1, ps, es2, goneP \cup {i}, goneE \cup dead,
                            K[Len(es)], near)

\* GameManager.checkProjectileEnemyCollisions: near[i] is the set of enemies
\* within projectileHitDist of projectile i.  Projectiles are visited from the
\* last down, the enemies of the array from the last down; the first enemy in
\* reach is damaged, the projectile is destroyed and the inner loop left.
\* goneP / goneE are the projectiles / enemies spliced out so far, kills the
\* types of the enemies that died, in order.
RECURSIVE ProjScan(_, _, _, _, _, _, _)
ProjScan(i, ps, es, goneP, goneE, kills, near) ==
  IF i = 0 THEN [enemies |-> es, goneP |-> goneP, goneE |-> goneE, kills |-> kills]
  ELSE LET cand == near[i] \ goneE
       IN  IF cand = {}
           THEN ProjScan(i - 1, ps, es, goneP, goneE, kills, near)
           ELSE LET j == MaxOf(cand)
                    es2 == [es EXCEPT ![j] = EnemyTakeDamage(@, ps[i].damage)]
                IN  IF es2[j].health <= 0
                    THEN ProjScan(i - 1, ps, es2, goneP \cup {i}, goneE \cup {j},
                                  Append(kills, es2[j].type), near)
                    ELSE ProjScan(i - 1, ps, es2, goneP \cup {i}, goneE, kills, near)

CheckProjectileEnemy ==
  /\ pc = "projEnemy"
  /\ \E near \in [1..Len(projectiles) -> SUBSET (1..Len(enemies))] :
       LET r == ProjScan(Len(projectiles), projectiles, enemies, {}, {}, <<>>, near)
           n == Len(r.kills)
       IN  /\ projectiles' = RemoveAt(projectiles, r.goneP)
           /\ enemies' = RemoveAt(r.enemies, r.goneE)
           /\ ui' = [ui EXCEPT !.score = @ + KillScore * n, !.kills = @ + n]
           /\ gems' = gems \o DropGems(r.kills)
           /\ hist' = [hist EXCEPT !.passes = Append(@, "projectileEnemy"),
                                    !.reach = near]
  /\ pc' = "gems"
  /\ UNCHANGED <<loops, deltaTime, wave, player, skills, spawnTimer, boss, gm>>

\* a gem loop that grants the XP without marking the gem, for comparison
RECURSIVE GemScanUnmarked(_, _, _, _, _)
GemScanUnmarked(k, gs, p, ups, reach) ==
  IF k > Len(gs) THEN [gems |-> gs, player |-> p, ups |-> ups]
  ELSE IF ~gs[k].isCollected /\ k \in reach
       THEN GemScanUnmarked(k + 1, gs, GainXp(p, gs[k].xpValue),
                            IF LevelsUp(p, gs[k].xpValue) THEN ups + 1 ELSE ups,
                            reach)
       ELSE GemScanUnmarked(k + 1, gs, p, ups, reach)

\* the loop of GameManager.checkGemCollections: reach is the set of gems
\* within gemCollectDist of the player; ups counts the triggerLevelUp calls
RECURSIVE GemScan(_, _, _, _, _)
GemScan(k, gs, p, ups, reach) ==
  IF k > Len(gs) THEN [gems |-> gs, player |-> p, ups |-> ups]
  ELSE IF ~gs[k].isCollected /\ k \in reach
       THEN GemScan(k + 1, [gs EXCEPT ![k].isCollected = TRUE],
                    GainXp(p, gs[k].xpValue),
                    IF LevelsUp(p, gs[k].xpValue) THEN ups + 1 ELSE ups, reach)
       ELSE GemScan(k + 1, gs, p, ups, reach)

\* GameManager.checkGemCollections; a level-up runs triggerLevelUp, which
\* pauses and shows the menu; the frame ends
CheckGems ==
  /\ pc = "gems"
  /\ \E reach \in SUBSET (1..Len(gems)) :
       LET r == GemScan(1, gems, player, 0, reach)
       IN  /\ gems' = r.gems
           /\ player' = r.player
           /\ gm' = [gm EXCEPT !.isPaused = @ \/ r.ups > 0]
           /\ \E menu \in (IF r.ups > 0 THEN GenerateUpgrades ELSE {ui.menu}) :
                ui' = [ui EXCEPT !.menu = menu]
       /\ hist' = [hist EXCEPT !.passes = Append(@, "gems"), !.gemReach = reach]
  /\ pc' = "idle"
  /\ UNCHANGED <<loops, deltaTime, wave, skills, enemies, spawnTimer,
                 projectiles, boss>>

\* ------------------------------------------------------------ UI callbacks
\* a button of the level-up menu: hideLevelUpMenu, then the callback of
\* triggerLevelUp: applyUpgrade(id), isPaused = false
SelectUpgrade ==
  /\ pc = "idle"
  /\ \E id \in ui.menu :
       /\ player' = ApplyUpgradePlayer(player, id)
       /\ skills' = ApplyUpgradeSkills(skills, id)
  /\ ui' = [ui EXCEPT !.menu = {}]
  /\ gm' = [gm EXCEPT !.isPaused = FALSE]
  /\ hist' = [hist EXCEPT !.applied = @ + 1]
  /\ UNCHANGED <<pc, loops, deltaTime, wave, enemies, spawnTimer, projectiles,
                 gems, boss>>

\* the restart button of the game-over or victory screen: GameManager.restart,
\* which ends by calling animate(): the callback is scheduled, the clock is
\* read and, isPaused being false, update() starts
RestartOn(D) ==
  /\ pc = "idle"
  /\ ui.gameOverShown \/ ui.victoryShown
  /\ projectiles' = <<>> /\ gems' = <<>> /\ enemies' = <<>>
  /\ player' = NewPlayer
  /\ skills' = <<>>
  /\ spawnTimer' = 0
  /\ wave' = NewWave
  /\ ui' = [ui EXCEPT !.score = 0, !.kills = 0, !.gameOverShown = FALSE,
                      !.victoryShown = FALSE]
  /\ gm' = NewGm
  /\ boss' = NoBoss
  /\ loops' = loops + 1
  /\ \E dt \in D : deltaTime' = dt
  /\ pc' = "wave"
  /\ hist.frames < MaxFrames
  /\ hist' = [NewHist EXCEPT !.call = "restart", !.frames = hist.frames + 1,
                             !.bossDestroys =
                               IF boss.exists THEN hist.bossDestroys + 1 ELSE 0]

Restart == RestartOn(DtSet)

Next ==
  \/ AnimateStop
  \/ AnimatePaused
  \/ AnimateRun
  \/ UpdateWave
  \/ UpdatePlayer
  \/ UpdateSpawner
  \/ UpdateSkills
  \/ UpdateEntities
  \/ BossSpawnCheck
  \/ UpdateBoss
  \/ SlowMoStep
  \/ CheckPlayerEnemy
  \/ CheckProjectileEnemy
  \/ CheckGems
  \/ SelectUpgrade
  \/ Restart

Spec == Init /\ [][Next]_vars

\* ------------------------------------------------- Player.gainXp on its own
\* the amounts the program passes to gainXp: the xpValue of a gem of each
\* enemy type, and the boss's xpValue
XpAmounts == {ENEMY_TYPES[t].xpValue : t \in DOMAIN ENEMY_TYPES} \cup {BossXpValue}

\* a new Player(), not yet attached to a GameManager
InitXp ==
  /\ pc = "xp" /\ loops = 0 /\ deltaTime = 0
  /\ wave = NewWave
  /\ player = NewPlayer
  /\ skills = <<>>
  /\ enemies = <<>> /\ spawnTimer = 0
  /\ projectiles = <<>> /\ gems = <<>>
  /\ boss = NoBoss
  /\ gm = NewGm
  /\ ui = NewUi
  /\ hist = NewHist

\* one call player.gainXp(amt)
GainXpCall ==
  /\ pc = "xp"
  /\ hist.xpCalls < MaxXpCalls
  /\ \E amt \in XpAmounts :
       /\ player' = GainXp(player, amt)
       /\ hist' = [hist EXCEPT !.xpCalls = @ + 1, !.amt = amt]
  /\ UNCHANGED <<pc, loops, deltaTime, wave, skills, enemies, spawnTimer,
                 projectiles, gems, boss, gm, ui>>

NextXp == GainXpCall

SpecXp == InitXp /\ [][NextXp]_vars

\* --------------------------------------------- SkillManager.addSkill on its own
\* the kinds passed to addSkill: the two skills, and two ids that name no
\* skill
SkillKinds == {"orbital", "thunder", "heal", "shield"}

\* a new Player() with its empty SkillManager
InitSkills ==
  /\ pc = "skill" /\ loops = 0 /\ deltaTime = 0
  /\ wave = NewWave
  /\ player = NewPlayer
  /\ skills = <<>>
  /\ enemies = <<>> /\ spawnTimer = 0
  /\ projectiles = <<>> /\ gems = <<>>
  /\ boss = NoBoss
  /\ gm = NewGm
  /\ ui = NewUi
  /\ hist = NewHist

\* one call skillManager.addSkill(kind)
AddSkillCall ==
  /\ pc = "skill"
  /\ hist.skillCalls < MaxSkillCalls
  /\ \E kind \in SkillKinds :
       /\ skills' = AddSkill(skills, kind)
       /\ hist' = [hist EXCEPT !.skillCalls = @ + 1, !.kind = kind]
  /\ UNCHANGED <<pc, loops, deltaTime, wave, player, enemies, spawnTimer,
                 projectiles, gems, boss, gm, ui>>

NextSkills == AddSkillCall

SpecSkills == InitSkills /\ [][NextSkills]_vars

\* ------------------------------------------ EnemySpawner.selectType on its own
\* the rolls Math.random() * totalWeight, by their integer part
Rolls == 0..(TotalWeight - 1)

\* a new EnemySpawner
InitSelect ==
  /\ pc = "select" /\ loops = 0 /\ deltaTime = 0
  /\ wave = NewWave
  /\ player = NewPlayer
  /\ skills = <<>>
  /\ enemies = <<>> /\ spawnTimer = 0
  /\ projectiles = <<>> /\ gems = <<>>
  /\ boss = NoBoss
  /\ gm = NewGm
  /\ ui = NewUi
  /\ hist = NewHist

\* one call of selectType
SelectTypeCall ==
  /\ pc = "select"
  /\ \E roll \in Rolls :
       hist' = [hist EXCEPT !.roll = roll, !.picked = SelectType(roll)]
  /\ UNCHANGED <<pc, loops, deltaTime, wave, player, skills, enemies,
                 spawnTimer, projectiles, gems, boss, gm, ui>>

NextSelect == SelectTypeCall

SpecSelect == InitSelect /\ [][NextSelect]_vars

\* ------------------------------------------- Player.handleShooting on its own
DtShoot == {250, 500, 1500}

\* the players that shoot: a new one, and one that took the shotgun upgrade
\* once or twice
Shooters ==
  {NewPlayer,
   ApplyUpgradePlayer(NewPlayer, "shotgun"),
   ApplyUpgradePlayer(ApplyUpgradePlayer(NewPlayer, "shotgun"), "shotgun")}

\* the enemy collections a call finds
Targets == {<<>>, <<NewEnemy("normal", 2)>>}

InitShoot ==
  /\ pc = "shoot" /\ loops = 0 /\ deltaTime = 0
  /\ wave = NewWave
  /\ player \in Shooters
  /\ skills = <<>>
  /\ enemies = <<>> /\ spawnTimer = 0
  /\ projectiles = <<>> /\ gems = <<>>
  /\ boss = NoBoss
  /\ gm = NewGm
  /\ ui = NewUi
  /\ hist = NewHist

\* one call of handleShooting(dt), with the enemies present at the call
ShootCall ==
  /\ pc = "shoot"
  /\ hist.shootCalls < MaxShootCalls
  /\ \E dt \in DtShoot, es \in Targets, inRange \in BOOLEAN :
       LET r == HandleShooting(player, dt, Len(es), inRange)
       IN  /\ inRange => Len(es) > 0
           /\ deltaTime' = dt
           /\ enemies' = es
           /\ player' = r.player
           /\ projectiles' = projectiles \o r.fired
           /\ hist' = [hist EXCEPT
                         !.shootCalls = @ + 1,
                         !.inRange = inRange,
                         !.sinceFire = IF r.fired # <<>> THEN 0 ELSE @ + dt]
  /\ UNCHANGED <<pc, loops, wave, skills, spawnTimer, gems, boss, gm, ui>>

NextShoot == ShootCall

SpecShoot == InitShoot /\ [][NextShoot]_vars

\* ----------------------------------------- Player.findClosestEnemy on its own
\* the enemy collections by the distances of their members to the player
DistSeqs ==
  UNION {[1..n -> 0..MaxDist] : n \in 0..MaxTargets}

InitClosest ==
  /\ pc = "closest" /\ loops = 0 /\ deltaTime = 0
  /\ wave = NewWave
  /\ player = NewPlayer
  /\ skills = <<>>
  /\ enemies = <<>> /\ spawnTimer = 0
  /\ projectiles = <<>> /\ gems = <<>>
  /\ boss = NoBoss
  /\ gm = NewGm
  /\ ui = NewUi
  /\ \E ds \in DistSeqs : hist = [NewHist EXCEPT !.dists = ds]

\* the call of findClosestEnemy
FindClosestCall ==
  /\ pc = "closest"
  /\ hist' = [hist EXCEPT !.closest = FindClosestEnemy(hist.dists)]
  /\ pc' = "closestDone"
  /\ UNCHANGED <<loops, deltaTime, wave, player, skills, enemies, spawnTimer,
                 projectiles, gems, boss, gm, ui>>

NextClosest == FindClosestCall

SpecClosest == InitClosest /\ [][NextClosest]_vars

\* --------------------------------------------- WaveManager.update on its own
DtWave == {2500, 10000, 60000}

\* a new WaveManager
InitWave ==
  /\ pc = "waveOnly" /\ loops = 0 /\ deltaTime = 0
  /\ wave = NewWave
  /\ player = NewPlayer
  /\ skills = <<>>
  /\ enemies = <<>> /\ spawnTimer = 0
  /\ projectiles = <<>> /\ gems = <<>>
  /\ boss = NoBoss
  /\ gm = NewGm
  /\ ui = NewUi
  /\ hist = NewHist

\* one call of WaveManager.update(dt)
WaveCall ==
  /\ pc = "waveOnly"
  /\ wave.gameTime < MaxGameTime
  /\ \E dt \in DtWave :
       /\ deltaTime' = dt
       /\ wave' = WaveUpdate(wave, dt)
  /\ UNCHANGED <<pc, loops, player, skills, enemies, spawnTimer, projectiles,
                 gems, boss, gm, ui, hist>>

NextWave == WaveCall

SpecWave == InitWave /\ [][NextWave]_vars

\* ------------------------------------------------ Weapon.upgrade on its own
\* a player holding a new pistol and a new shotgun
InitWeapon ==
  /\ pc = "weapon" /\ loops = 0 /\ deltaTime = 0
  /\ wave = NewWave
  /\ player = [NewPlayer EXCEPT !.shotgun = ShotgunL1]
  /\ skills = <<>>
  /\ enemies = <<>> /\ spawnTimer = 0
  /\ projectiles = <<>> /\ gems = <<>>
  /\ boss = NoBoss
  /\ gm = NewGm
  /\ ui = NewUi
  /\ hist = NewHist

\* one call of upgrade() on one of the two weapons
WeaponUpgradeCall ==
  /\ pc = "weapon"
  /\ \E type \in {"pistol", "shotgun"} :
       /\ hist.upgrades[type] < MaxUpgrades
       /\ player' = IF type = "pistol"
                    THEN [player EXCEPT !.pistol = PistolUpgrade(@)]
                    ELSE [player EXCEPT !.shotgun = ShotgunUpgrade(@)]
       /\ hist' = [hist EXCEPT !.upgrades[type] = @ + 1]
  /\ UNCHANGED <<pc, loops, deltaTime, wave, skills, enemies, spawnTimer,
                 projectiles, gems, boss, gm, ui>>

NextWeapon == WeaponUpgradeCall

SpecWeapon == InitWeapon /\ [][NextWeapon]_vars

\* ------------------------------------------- four frames per second, mid-fight
\* The run 75 s in, at a frame boundary (healthMult 1.5, spawnMult 0.8): the
\* boss was spawned at 60 s; the player killed five enemies, is at level 3
\* with 40 of 45 XP and holds both skills; one 10 XP gem lies in the arena; a
\* tank and a runner are close, neither hit by the shield yet; the player is
\* at full health or at 15 HP; no contact damage was applied during the last
\* half second.
FineEnemies ==
  LET tank == NewEnemy("tank", 3)
      runner == NewEnemy("runner", 3)
  IN  {<<tank, runner>>, <<runner, tank>>}

InitFine ==
  /\ pc = "idle" /\ loops = 1 /\ deltaTime = 250
  /\ wave = WaveUpdate([NewWave EXCEPT !.gameTime = 75000 - 250], 250)
  /\ \E h \in {30000, PlayerMaxHealth} :
       player = [NewPlayer EXCEPT !.level = 3, !.xpToNextLevel = 45,
                                  !.currentXp = 40, !.currentHealth = h]
  /\ skills = <<NewSkill("orbital"), NewSkill("thunder")>>
  /\ enemies \in FineEnemies /\ spawnTimer = 0
  /\ projectiles = <<>>
  /\ gems = <<[xpValue |-> ENEMY_TYPES["normal"].xpValue, isCollected |-> FALSE]>>
  /\ boss = [health |-> BossMaxHealth, isDestroyed |-> FALSE, exists |-> TRUE]
  /\ gm = [NewGm EXCEPT !.bossSpawned = TRUE, !.contactDmgTimer = contactDmgInterval]
  /\ ui = [NewUi EXCEPT !.score = 50, !.kills = 5]
  /\ hist = [NewHist EXCEPT !.applied = 2]

AnimatePausedFine == AnimatePausedOn(DtFine)
AnimateRunFine == AnimateRunOn(DtFine)
RestartFine == RestartOn(DtFine)

NextFine ==
  \/ AnimateStop
  \/ AnimatePausedFine
  \/ AnimateRunFine
  \/ UpdateWave
  \/ UpdatePlayer
  \/ UpdateSpawner
  \/ UpdateSkills
  \/ UpdateEntities
  \/ BossSpawnCheck
  \/ UpdateBoss
  \/ SlowMoStep
  \/ CheckPlayerEnemy
  \/ CheckProjectileEnemy
  \/ CheckGems
  \/ SelectUpgrade
  \/ RestartFine

SpecFine == InitFine /\ [][NextFine]_vars

\* ------------------------------------------------------------------ claims
\* C1: in every reachable state 0 <= player.currentHealth <= player.maxHealth,
\* also after the lethal takeDamage of the frame that triggers game over.
HealthWithinBounds ==
  /\ 0 <= player.currentHealth
  /\ player.currentHealth <= player.maxHealth

\* C2: at a frame boundary the flags encode one phase: isGameOver and
\* isVictory are not both true, and no level-up menu is open once the game
\* is over or the victory screen is shown.
OnePhaseAtFrameBoundary ==
  pc = "idle" =>
    /\ ~(gm.isGameOver /\ gm.isVictory)
    /\ (gm.isGameOver \/ ui.victoryShown) => ui.menu = {}

\* the gameplay state: elapsed time, entities, player stats, score
GameplayState ==
  <<wave, player, skills, enemies, spawnTimer, projectiles, gems, boss,
    ui.score, ui.kills>>

\* a step of restart(): the only one that schedules one more callback
RestartStep == loops' = loops + 1

GameOverStep ==
  (pc = "idle" /\ gm.isGameOver /\ ~RestartStep)
    => (pc' = "idle" /\ gm'.isGameOver /\ GameplayState' = GameplayState)

\* C3: once the game is over, between frames, every step other than restart
\* leaves the gameplay state as it is, starts no update() and keeps the game
\* over.
GameOverIsTerminal == [][GameOverStep]_vars

\* C4: when restart() returns, the game is in the PLAYING phase with empty
\* collections, no boss, score and kills 0, a new player and elapsed time 0.
RestartYieldsFreshRun ==
  (pc = "idle" /\ hist.call = "restart") =>
    /\ ~gm.isPaused /\ ~gm.isGameOver /\ ~gm.isVictory
    /\ gm.slowMoTimer = 0 /\ gm.slowMoScale = 10
    /\ projectiles = <<>> /\ gems = <<>> /\ enemies = <<>>
    /\ boss = NoBoss /\ ~gm.bossSpawned
    /\ ui.score = 0 /\ ui.kills = 0
    /\ player.currentHealth = player.maxHealth
    /\ player.level = 1 /\ player.currentXp = 0
    /\ player.pistol = PistolL1 /\ player.activeWeapon = "pistol"
    /\ skills = <<>>
    /\ wave.gameTime = 0

KillRewardStep ==
  pc \in {"skills", "projEnemy"} =>
    LET n == Len(enemies) - Len(enemies')
    IN  /\ ui'.score = ui.score + KillScore * n
        /\ ui'.kills = ui.kills + n
        /\ Len(gems') = Len(gems) + n
        /\ \A i \in 1..Len(enemies') : enemies'[i].health > 0

\* C5: in the skill step and in the projectile step of a frame, each enemy
\* that leaves the collection is rewarded once: with n enemies removed the
\* score grows by 10 n, the kill count by n, n gems are spawned, and no enemy
\* with health <= 0 stays in the collection.
KillRewardOncePerEnemy == [][KillRewardStep]_vars

LevelUpStep ==
  player'.level > player.level => player'.currentXp < player'.xpToNextLevel

\* C6: a step in which the player's level rises leaves currentXp below
\* xpToNextLevel.
LevelUpLeavesXpBelowThreshold == [][LevelUpStep]_vars

GainXpStep ==
  pc = "xp" =>
    LET a == hist'.amt
        T == player.xpToNextLevel
        x == player.currentXp + a
    IN  IF x >= T
        THEN player' = [player EXCEPT !.level = @ + 1,
                                      !.currentXp = x - T,
                                      !.xpToNextLevel = (T * 3) \div 2]
        ELSE player' = [player EXCEPT !.currentXp = x]

\* C7: gainXp(a) with currentXp + a >= T gives level + 1, currentXp + a - T
\* and the threshold floor(T * 1.5); below T only currentXp changes.
GainXpResult == [][GainXpStep]_vars

\* C7, the example: level 1, 0 XP, threshold 20, gainXp(25)
GainXpExample ==
  /\ pc = "xp" /\ hist.xpCalls = 1 /\ hist.amt = 25
  /\ player.level = 2 /\ player.currentXp = 5 /\ player.xpToNextLevel = 30

BossKillStep ==
  (~boss.isDestroyed /\ boss'.isDestroyed) =>
    /\ boss'.health <= 0
    /\ gm'.isVictory
    /\ gm'.slowMoScale = SlowMoScaleTenths
    /\ gm'.slowMoTimer = SlowMoWindow
    /\ ui'.score = ui.score + VictoryBonus
    /\ player'.currentXp + (IF player'.level > player.level
                            THEN player.xpToNextLevel ELSE 0)
         = player.currentXp + BossXpValue

\* C8: the step in which a projectile destroys the boss sets isVictory, the
\* scalar 0.2 and the window 3.0 s, adds 1000 to the score and 500 XP; in a
\* run the bonus and the XP are granted at most once, exactly when the boss
\* is destroyed.
BossKillGrantsOnce ==
  /\ [](/\ hist.bossBonus \in {0, VictoryBonus}
        /\ hist.bossXp \in {0, BossXpValue}
        /\ (hist.bossBonus = VictoryBonus) <=> boss.isDestroyed
        /\ (hist.bossXp = BossXpValue) <=> boss.isDestroyed)
  /\ [][BossKillStep]_vars

\* C8: the boss has just been destroyed by a projectile
BossJustKilled ==
  /\ pc = "slowmo" /\ boss.isDestroyed
  /\ hist.bossBonus = VictoryBonus /\ hist.bossXp = BossXpValue
  /\ gm.isVictory /\ gm.slowMoTimer = SlowMoWindow

WindowStep ==
  (gm.isVictory /\ gm.slowMoTimer > 0) =>
    LET scaled == (deltaTime * gm.slowMoScale) \div 10
    IN  /\ pc = "wave" => wave'.gameTime = wave.gameTime + scaled
        /\ pc = "player" => player'.fireTimer \in {0, player.fireTimer + scaled}
        /\ pc = "spawner" => spawnTimer' \in {0, spawnTimer + scaled}
        /\ pc = "slowmo" => gm'.slowMoTimer = gm.slowMoTimer - deltaTime

\* C10: while the window runs, the wave clock, the fire timer and the spawn
\* timer advance by the frame delta times the slow-motion scalar, and the
\* window itself by the unscaled delta.
EntityUpdatesScaledInWindow == [][WindowStep]_vars

BossSpawnStep ==
  /\ (~boss.exists /\ boss'.exists) =>
        /\ pc = "bossSpawn"
        /\ ~gm.bossSpawned /\ gm'.bossSpawned
        /\ wave.gameTime >= bossSpawnTime
        /\ boss'.health = BossMaxHealth /\ ~boss'.isDestroyed
  /\ (boss.exists /\ ~RestartStep) =>
        /\ boss'.exists
        /\ boss'.health <= boss.health
        /\ boss.isDestroyed => boss'.isDestroyed
  /\ (gm.bossSpawned /\ ~RestartStep) => gm'.bossSpawned

\* C11: in a run spawnBoss runs at most once, in the first frame whose
\* elapsed time is >= 60 s and never before: a boss appears only in the boss
\* spawn check with bossSpawned false and the time reached; the flag and the
\* boss stay until restart, a destroyed boss stays destroyed and no new boss
\* replaces it; a boss exists only while bossSpawned is true; and past the
\* spawn check of a frame, elapsed time >= 60 s implies bossSpawned.
BossSpawnedOncePerRun ==
  /\ [](/\ boss.exists <=> gm.bossSpawned
        /\ gm.bossSpawned => wave.gameTime >= bossSpawnTime
        /\ (pc \notin {"player", "spawner", "skills", "entities", "bossSpawn"}
              /\ wave.gameTime >= bossSpawnTime) => gm.bossSpawned)
  /\ [][BossSpawnStep]_vars

\* C11: spawnBoss has just run, in the frame that brought the time to 60 s
BossJustSpawned ==
  /\ pc = "boss" /\ gm.bossSpawned /\ boss.exists
  /\ boss.health = BossMaxHealth
  /\ wave.gameTime = bossSpawnTime

\* the GAME_OVER phase on the flags: gameOver() has run and no update() is
\* going to run (animate returns, or skips update() while paused)
GameOverPhase == gm.isGameOver /\ (gm.isPaused \/ ~gm.isVictory)

\* C12: a damage application that leaves the player's health <= 0 runs
\* gameOver() in the same frame, so at every frame boundary health <= 0
\* implies that the phase is GAME_OVER.
DeadPlayerMeansGameOver ==
  (pc = "idle" /\ player.currentHealth <= 0) => GameOverPhase

\* the enemies of a damaged array whose health is <= 0
Dead(es) == {j \in 1..Len(es) : es[j].health <= 0}

\* the damage amounts the weapons and skills of the state deal
DamageAmounts ==
  {ActiveWeapon(player).damage} \cup {skills[i].damage : i \in 1..Len(skills)}
    \cup {projectiles[i].damage : i \in 1..Len(projectiles)}

EnemyDamageStep ==
  /\ pc = "skills" =>
       \E near \in SUBSET (1..Len(enemies)), pick \in 1..Max(1, Len(enemies)) :
         LET r == SkillsRun(skills, 1, enemies, <<>>, deltaTime, near, pick)
         IN  /\ skills' = r.skills
             /\ enemies' = RemoveAt(r.enemies, Dead(r.enemies))
             /\ \A j \in 1..Len(enemies) : r.enemies[j].health <= enemies[j].health
  /\ pc = "projEnemy" =>
       \E near \in [1..Len(projectiles) -> SUBSET (1..Len(enemies))] :
         LET r == ProjScan(Len(projectiles), projectiles, enemies, {}, {}, <<>>, near)
         IN  /\ projectiles' = RemoveAt(projectiles, r.goneP)
             /\ enemies' = RemoveAt(r.enemies, Dead(r.enemies))
             /\ \A j \in 1..Len(enemies) : r.enemies[j].health <= enemies[j].health

\* C13: takeDamage(d) with d > 0 lowers an enemy's health by exactly d; the
\* skill step and the projectile step remove from the collection exactly the
\* enemies whose health they brought to <= 0; so every enemy in the
\* collection has health > 0.
EnemyDestroyedIffHealthGone ==
  /\ [](/\ \A i \in 1..Len(enemies) : enemies[i].health > 0
        /\ \A i \in 1..Len(enemies), d \in DamageAmounts :
              /\ d > 0
              /\ EnemyTakeDamage(enemies[i], d).health = enemies[i].health - d
              /\ EnemyTakeDamage(enemies[i], d).health < enemies[i].health)
  /\ [][EnemyDamageStep]_vars

\* C13: in one skill step an enemy has been killed and another, a tank, has
\* been struck by the thunder and stays in the collection
EnemyStruckAndEnemyKilled ==
  /\ pc = "entities" /\ Len(gems) > 0
  /\ \E i \in 1..Len(enemies) :
       /\ enemies[i].type = "tank"
       /\ enemies[i].health = enemies[i].maxHealth - 50000

\* the total damage carried by a sequence of projectiles
RECURSIVE SumDamage(_)
SumDamage(ps) == IF ps = <<>> THEN 0 ELSE Head(ps).damage + SumDamage(Tail(ps))

\* the enemies of the collection that are alive
Alive == {j \in 1..Len(enemies) : enemies[j].health > 0}

LaterPassStep ==
  /\ pc = "boss" =>
       boss.health - boss'.health = SumDamage(projectiles) - SumDamage(projectiles')
  /\ pc = "contact" =>
       player.currentHealth - player'.currentHealth
         \in {0} \cup {ContactSum(enemies, S) : S \in SUBSET Alive}
  /\ pc = "projEnemy" =>
       \E near \in [1..Len(projectiles) -> SUBSET Alive] :
         LET r == ProjScan(Len(projectiles), projectiles, enemies, {}, {}, <<>>, near)
         IN  /\ projectiles' = RemoveAt(projectiles, r.goneP)
             /\ enemies' = RemoveAt(r.enemies, r.goneE)

\* C14: an enemy or projectile destroyed by one pass of a frame is out of its
\* collection when the next pass starts: at every pass boundary the enemies
\* of the collection are alive and the projectiles unexpired, the projectiles
\* that damaged the boss are gone after the boss pass, the contact pass sums
\* the damage of living enemies only and the projectile pass hits living
\* enemies only.
DestroyedLeavesBeforeLaterPass ==
  /\ [](pc \in {"entities", "bossSpawn", "boss", "slowmo", "contact",
                 "projEnemy", "gems", "idle"}
          => /\ Alive = 1..Len(enemies)
             /\ pc # "entities" =>
                  \A i \in 1..Len(projectiles) : projectiles[i].age < ProjectileLifetime)
  /\ [][LaterPassStep]_vars

\* C14: the skill pass has killed an enemy (its gem lies in the arena) and
\* the contact pass of the same frame has struck the player with the damage
\* of another enemy
ContactAfterSkillKill ==
  /\ pc = "projEnemy" /\ hist.frames = 1
  /\ Len(gems) > 0 /\ Len(enemies) > 0
  /\ gm.contactDmgTimer = 0 /\ player.currentHealth < 30000
  /\ ~gm.isVictory

EnemyContactStep ==
  (pc = "contact" /\ player'.currentHealth < player.currentHealth) =>
    /\ hist.sinceEnemy >= contactDmgInterval
    /\ player.currentHealth - player'.currentHealth
         \in {ContactSum(enemies, S) : S \in (SUBSET (1..Len(enemies))) \ {{}}}

\* C15: enemy contact damage is applied at most once per 0.5 s of simulated
\* time: when the contact pass lowers the player's health, at least
\* contactDmgInterval of frame time has passed since the contact pass last
\* did so, and the amount is the sum of the contactDamage of a non-empty set
\* of enemies of the collection.
EnemyContactOncePerInterval == [][EnemyContactStep]_vars

BossContactStep ==
  (pc = "boss" /\ player'.currentHealth < player.currentHealth) =>
    /\ hist.sinceBoss >= contactDmgInterval
    /\ player.currentHealth - player'.currentHealth = BossContactDamage
    /\ gm'.contactDmgTimer = 0

\* C16: boss contact damage is applied at most once per 0.5 s of simulated
\* time, whatever the enemy contact pass does: when the boss pass lowers the
\* player's health, it does so by the boss's contact damage and at least
\* contactDmgInterval of frame time has passed since the boss pass last did
\* so.
BossContactOncePerInterval == [][BossContactStep]_vars

\* the number of enemies a step damaged: those that left the collection and
\* those that stay with less health
Damaged ==
  LET gone == Len(enemies) - Len(enemies')
      Hurt(e) == \E i \in 1..Len(enemies) :
                   enemies[i].type = e.type /\ enemies[i].health > e.health
                     /\ enemies[i].maxHealth = e.maxHealth
  IN  gone + Cardinality({i \in 1..Len(enemies') :
                            enemies'[i] \notin {enemies[j] : j \in 1..Len(enemies)}
                              /\ Hurt(enemies'[i])})

PierceStep ==
  (/\ pc = "projEnemy"
   /\ player.shotgun = NoWeapon
   /\ Len(projectiles) = 1
   /\ Damaged = 1)
    => projectiles' = projectiles

\* C17: a pistol projectile pierces once: the projectile pass that damages
\* one enemy with a projectile of a player who never held the shotgun leaves
\* the projectile in the collection (it is destroyed by its second hit).
PistolProjectilePiercesOnce == [][PierceStep]_vars

OrbitalStep ==
  (pc = "skills" /\ HasSkill(skills, "orbital")) =>
    /\ \A k \in hist'.hit : enemies[k].sinceHit >= damageInterval
    /\ \A k \in hist'.near :
         enemies[k].sinceHit >= damageInterval => k \in hist'.hit

\* C18: the shield damages an enemy only when at least damageInterval has
\* passed since it last damaged that enemy, and in a skill pass it damages
\* every enemy that overlaps an orbital and whose own cooldown has expired,
\* whatever happens to the other enemies in that pass.
OrbitalCooldownPerEnemy == [][OrbitalStep]_vars

\* a step of the selection callback: the only one that closes the menu
SelectionStep == ui.menu # {} /\ ui'.menu = {}

StaleSelectionStep ==
  SelectionStep =>
    /\ (gm.isGameOver \/ ui.victoryShown) =>
         (gm' = gm /\ player' = player /\ skills' = skills)
    /\ player.level = 1 => (player' = player /\ skills' = skills)

\* C19: a level-up selection acts only on the pause it was issued for: when
\* it arrives after game over or after the victory screen it leaves the
\* flags, the player and the skills as they are, and when it arrives after a
\* restart (the player is at level 1, so no level-up of this run issued the
\* menu) it leaves the new player and its skills as they are.
StaleSelectionIgnored == [][StaleSelectionStep]_vars

\* the enemies as the Enemy objects store them: the age of an entry of
\* damageCooldowns is read off the wall clock, not stored
Stored(es) ==
  [i \in 1..Len(es) |->
     [type |-> es[i].type, health |-> es[i].health, maxHealth |-> es[i].maxHealth]]

\* the simulation state: elapsed time, player, skills and their timers,
\* enemies, spawn timer, projectiles, gems, boss, flags and timers of the
\* GameManager, score and kills
SimulationState ==
  <<wave, player, skills, Stored(enemies), spawnTimer, projectiles, gems, boss,
    gm, ui.score, ui.kills, ui.menu>>

PausedForLevelUp ==
  /\ pc = "idle" /\ gm.isPaused /\ ui.menu # {}
  /\ ~gm.isGameOver /\ ~ui.victoryShown

PausedFrameStep ==
  (PausedForLevelUp /\ ~SelectionStep) =>
    (pc' = "idle" /\ SimulationState' = SimulationState)

\* C20: while the game is paused for a level-up, every step other than the
\* selection callback (every rendered frame) starts no update() and leaves
\* elapsed time, player, skills, enemies, projectiles, gems, boss, all timers
\* and the score as they are.
PausedFrameChangesNothing == [][PausedFrameStep]_vars

\* C20: a frame has been rendered during the level-up pause that followed a
\* simulated frame of 0.5 s: the clock read a delta of 60 s, the elapsed
\* time is still that of the simulated frame
PausedFrameRendered ==
  /\ PausedForLevelUp
  /\ hist.frames = 1 /\ deltaTime = 60000
  /\ wave.gameTime = 3000000 + 500

\* the skill of a kind in a registry, or none
SkillOf(sks, kind) ==
  IF HasSkill(sks, kind)
  THEN {sks[i] : i \in {j \in 1..Len(sks) : sks[j].kind = kind}}
  ELSE {}

\* the kinds a registry holds
Kinds(sks) == {sks[i].kind : i \in 1..Len(sks)}

\* the effect of a skill selection on the registry: kind is created at level
\* 1 if absent and else raised by one level; the other kinds stay
SkillEffect(kind) ==
  /\ Kinds(skills') = Kinds(skills) \cup {kind}
  /\ Len(skills') = Cardinality(Kinds(skills'))
  /\ \A k \in Kinds(skills) \ {kind} : SkillOf(skills', k) = SkillOf(skills, k)
  /\ \A sk \in SkillOf(skills', kind) :
       IF HasSkill(skills, kind)
       THEN \A old \in SkillOf(skills, kind) : sk.level = old.level + 1
       ELSE sk.level = 1

SelectionEffectStep ==
  SelectionStep =>
    /\ \E id \in ui.menu :
         CASE id = "pistol" ->
                /\ player'.pistol.level = player.pistol.level + 1
                /\ player'.activeWeapon = "pistol"
                /\ player' = [player EXCEPT !.pistol = player'.pistol,
                                            !.activeWeapon = "pistol"]
                /\ skills' = skills
           [] id = "shotgun" ->
                /\ player'.shotgun.level =
                     IF player.shotgun = NoWeapon THEN 1 ELSE player.shotgun.level + 1
                /\ player'.activeWeapon = "shotgun"
                /\ player' = [player EXCEPT !.shotgun = player'.shotgun,
                                            !.activeWeapon = "shotgun"]
                /\ skills' = skills
           [] id \in {"orbital", "thunder"} ->
                /\ SkillEffect(id)
                /\ player' = player
           [] id = "heal" ->
                /\ player' = [player EXCEPT !.currentHealth =
                                Min(player.maxHealth, @ + player.maxHealth \div 2)]
                /\ skills' = skills
    /\ gm' = [gm EXCEPT !.isPaused = FALSE]
    /\ UNCHANGED <<pc, wave, enemies, spawnTimer, projectiles, gems, boss>>
    /\ ui'.score = ui.score /\ ui'.kills = ui.kills

\* C21: a selection applies one effect of the catalog and resumes: pistol
\* raises the pistol's level by 1 and makes it active; shotgun creates the
\* shotgun at level 1 or raises its level by 1 and makes it active; orbital
\* and thunder create the skill at level 1 or raise its level by 1; heal
\* sets health to min(maxHealth, health + maxHealth / 2); nothing else
\* changes and isPaused becomes false.
SelectionAppliesOneEffect == [][SelectionEffectStep]_vars

\* C21: selections have been applied: the shotgun was created and is active,
\* or an owned skill has been raised to level 2
SelectionApplied ==
  /\ pc = "idle" /\ ui.menu = {} /\ ~gm.isPaused
  /\ \/ player.shotgun.level = 1 /\ player.activeWeapon = "shotgun"
     \/ \E i \in 1..Len(skills) : skills[i].level = 2

AddSkillStep ==
  pc = "skill" =>
    LET kind == hist'.kind
    IN  IF kind \in {"orbital", "thunder"}
        THEN /\ SkillEffect(kind)
             /\ \A sk \in SkillOf(skills', kind) :
                  IF HasSkill(skills, kind)
                  THEN \A old \in SkillOf(skills, kind) : sk.timer = old.timer
                  ELSE sk = NewSkill(kind)
        ELSE skills' = skills

\* C22: the registry holds at most one skill per kind; the first
\* addSkill(kind) creates the skill at level 1, every later one keeps it and
\* raises its level by 1, the other kind is untouched, and a kind that names
\* no skill leaves the registry as it is.
OneSkillPerKind ==
  /\ [](Len(skills) = Cardinality(Kinds(skills)))
  /\ [][AddSkillStep]_vars

\* C22: both skills are registered, one of them raised twice
BothSkillsOneRaisedTwice ==
  /\ pc = "skill" /\ Len(skills) = 2
  /\ Kinds(skills) = {"orbital", "thunder"}
  /\ \E i \in 1..2 : skills[i].level = 3

SelectTypeStep ==
  pc = "select" =>
    LET r == hist'.roll
    IN  /\ hist'.picked \in {"normal", "runner", "tank"}
        /\ hist'.picked = "normal" <=> r < 70
        /\ hist'.picked = "runner" <=> (70 <= r /\ r < 90)
        /\ hist'.picked = "tank" <=> (90 <= r /\ r < 100)

SpawnBossStep ==
  (~gm.bossSpawned /\ gm'.bossSpawned) => enemies' = <<>>

\* C24: immediately after spawnBoss the active enemy collection is empty.
ArenaClearedAtBossSpawn == [][SpawnBossStep]_vars

\* C24: spawnBoss has just run and an enemy is still in the arena
EnemiesBesideNewBoss ==
  /\ pc = "boss" /\ gm.bossSpawned /\ boss.exists
  /\ wave.gameTime = bossSpawnTime
  /\ enemies # <<>>

\* in the current frame, every a came before every b
Before(a, b) ==
  \A i, j \in 1..Len(hist.passes) :
    (hist.passes[i] = a /\ hist.passes[j] = b) => i < j

CollisionPasses ==
  <<"playerEnemy", "playerBoss", "projectileEnemy", "projectileBoss", "gems">>

\* C25: in every frame the collision passes run after the boss's update and
\* in the order player-enemy contact, player-boss contact, projectile-enemy,
\* projectile-boss, gem collection.
CollisionPassesInOrder ==
  /\ \A k \in 1..Len(CollisionPasses) : Before("bossUpdate", CollisionPasses[k])
  /\ \A k \in 1..(Len(CollisionPasses) - 1) :
       Before(CollisionPasses[k], CollisionPasses[k + 1])

\* C25: a frame with a live boss has run all its passes
FrameWithBossDone ==
  /\ pc = "idle"
  /\ hist.passes = <<"bossUpdate", "playerBoss", "projectileBoss",
                     "playerEnemy", "projectileEnemy", "gems">>

ShootStep ==
  pc = "shoot" =>
    LET t == player.fireTimer + deltaTime'
        w == ActiveWeapon(player)
        n == Len(projectiles)
        fire == t >= w.fireRate /\ Len(enemies') > 0 /\ hist'.inRange
    IN  /\ Len(projectiles') >= n
        /\ SubSeq(projectiles', 1, n) = projectiles
        /\ fire =>
             /\ player'.fireTimer = 0
             /\ Len(projectiles') = n + w.projectileCount
             /\ \A i \in (n + 1)..Len(projectiles') :
                  projectiles'[i].damage = w.damage
             /\ hist.sinceFire + deltaTime' >= w.fireRate
        /\ ~fire =>
             /\ projectiles' = projectiles
             /\ player'.fireTimer = t

\* C26: handleShooting adds dt to the fire accumulator and fires exactly when
\* the accumulator has reached the active weapon's interval, an enemy exists
\* and the nearest one is in range; a fire resets the accumulator and appends
\* projectileCount projectiles with the weapon's damage, anything else adds
\* none and keeps the accumulator; two volleys are at least one interval of
\* handed time apart.
FiresWhenDueAndInRange == [][ShootStep]_vars

\* C26: the shotgun has fired its second volley of three
SecondShotgunVolley ==
  /\ pc = "shoot" /\ player.activeWeapon = "shotgun"
  /\ player.shotgun.projectileCount = 3
  /\ Len(projectiles) = 6 /\ player.fireTimer = 0

ProjectilePairStep ==
  /\ pc = "boss" =>
       boss.health - boss'.health = SumDamage(projectiles) - SumDamage(projectiles')
  /\ pc = "projEnemy" =>
       Damaged <= Len(projectiles) - Len(projectiles')

\* C28: in a frame each projectile damages at most one target, the boss
\* included: the boss loses exactly the damage of the projectiles that leave
\* the collection in its pass, and the enemy pass damages no more enemies
\* than projectiles leave the collection in it.
ProjectileDamagesOneTarget == [][ProjectilePairStep]_vars

\* C28: a projectile had two enemies in reach, and the pass has consumed it
ProjectileBetweenTwoEnemies ==
  /\ pc = "gems" /\ projectiles = <<>>
  /\ hist.passes # <<>> /\ hist.passes[Len(hist.passes)] = "projectileEnemy"
  /\ \E i \in DOMAIN hist.reach : Cardinality(hist.reach[i]) = 2
  /\ Len(enemies) = 2
  /\ \E j \in 1..2 : enemies[j].health = enemies[j].maxHealth

ThunderStep ==
  (pc = "skills" /\ HasSkill(skills, "thunder")) =>
    LET i == CHOOSE k \in 1..Len(skills) : skills[k].kind = "thunder"
        t == skills[i].timer + deltaTime
        due == t >= skills[i].cooldown
    IN  /\ (due /\ enemies = <<>>) =>
             skills'[i].timer = t /\ hist'.bolt = <<>>
        /\ (due /\ enemies # <<>>) =>
             /\ skills'[i].timer = 0
             /\ Len(hist'.bolt) = 1 /\ hist'.bolt[1] > 0
        /\ ~due =>
             skills'[i].timer = t /\ hist'.bolt = <<>>

\* C29: a ThunderStrike whose timer has reached the cooldown keeps the timer
\* and deals no damage while there is no enemy; with an enemy it resets the
\* timer to 0 and strikes one enemy that is alive (health above 0) when
\* picked; before the cooldown it only accumulates.
ThunderStrikesOneLiveEnemy == [][ThunderStep]_vars

\* C29: the thunder has struck an enemy whose health was already gone
BoltOnDeadEnemy ==
  pc = "entities" /\ Len(hist.bolt) = 1 /\ hist.bolt[1] <= 0

SpawnStep ==
  pc = "spawner" =>
    LET interval == (baseInterval * wave.spawnMult) \div 10
        t == spawnTimer + deltaTime
        n == Len(enemies)
    IN  /\ interval >= 240
        /\ t >= interval =>
             /\ spawnTimer' = 0
             /\ Len(enemies') = n + 1
             /\ SubSeq(enemies', 1, n) = enemies
             /\ hist.sinceSpawn + deltaTime >= interval
        /\ t < interval =>
             /\ spawnTimer' = t
             /\ enemies' = enemies

SpawnHealthStep ==
  /\ (pc = "spawner" /\ Len(enemies') > Len(enemies)) =>
       LET e == enemies'[Len(enemies')]
       IN  /\ e.health = e.maxHealth
           /\ e.maxHealth =
                ((ENEMY_TYPES[e.type].health * wave.healthMult) \div 2) * 1000
           /\ e.maxHealth >= 1000
  /\ (wave'.healthMult # wave.healthMult /\ ~RestartStep) =>
       enemies' = enemies

\* C31: a spawned enemy starts with health = maxHealth = the floor of its
\* archetype's base health times the health multiplier in force, at least
\* 1 HP, and a change of the multiplier leaves the enemies alive as they are.
SpawnHealthScaledOnce == [][SpawnHealthStep]_vars

\* C31: a normal enemy spawned at multiplier 1.5 (floor(4.5) = 4 HP) keeps
\* its 4 HP maximum under multiplier 2
EnemyKeepsSpawnHealth ==
  /\ wave.healthMult = 4
  /\ \E i \in 1..Len(enemies) :
       enemies[i].type = "normal" /\ enemies[i].maxHealth = 4000

WaveStep ==
  pc = "waveOnly" =>
    LET t == wave'.gameTime
    IN  /\ t = wave.gameTime + deltaTime'
        /\ wave'.healthMult = 2 * 1 + (t \div 60000) * 1
        /\ wave'.spawnMult = Max(3, 10 - (t \div 30000) * 1)
        /\ t >= wave.gameTime
        /\ wave'.healthMult >= wave.healthMult
        /\ wave'.spawnMult <= wave.spawnMult
        /\ wave'.spawnMult >= 3

\* C32: after WaveManager.update the health multiplier is 1 + floor(t/60) *
\* 0.5 (in halves: 2 + floor(t/60)) and the spawn multiplier max(0.3, 1 -
\* floor(t/30) * 0.1) (in tenths); the time and the health multiplier never
\* decrease, the spawn multiplier never increases nor drops below 0.3.
WaveMultipliersFollowTime == [][WaveStep]_vars

\* C32: four minutes in, the spawn multiplier rests on its floor of 0.3
SpawnMultOnFloor ==
  pc = "waveOnly" /\ wave.gameTime >= 240000 /\ wave.spawnMult = 3

BossAlive == boss.exists /\ ~boss.isDestroyed

SpawnerBesideBossStep ==
  /\ (~gm.bossSpawned /\ gm'.bossSpawned) =>
       /\ spawnTimer' = spawnTimer
       /\ wave'.spawnMult = wave.spawnMult
  /\ (pc = "spawner" /\ BossAlive) =>
       LET due == spawnTimer + deltaTime >= (baseInterval * wave.spawnMult) \div 10
       IN  IF due
           THEN spawnTimer' = 0 /\ Len(enemies') = Len(enemies) + 1
           ELSE spawnTimer' = spawnTimer + deltaTime /\ enemies' = enemies

RECURSIVE Threshold(_)
Threshold(l) ==
  IF l = 1 THEN XpToNextLevelStart ELSE (Threshold(l - 1) * xpScalingTenths) \div 10

\* the XP a player has been granted in the run: the thresholds of the levels
\* passed, and the XP held
RECURSIVE Passed(_)
Passed(l) == IF l = 1 THEN 0 ELSE Passed(l - 1) + Threshold(l - 1)

Earned(p) == Passed(p.level) + p.currentXp

RECURSIVE SumXp(_, _)
SumXp(gs, S) ==
  IF S = {} THEN 0
  ELSE LET k == CHOOSE x \in S : TRUE
       IN  gs[k].xpValue + SumXp(gs, S \ {k})

GemStep ==
  /\ pc = "gems" =>
       LET fresh == {k \in 1..Len(gems) : ~gems[k].isCollected}
           taken == fresh \cap hist'.gemReach
       IN  /\ Len(gems') = Len(gems)
           /\ \A k \in 1..Len(gems) :
                /\ gems'[k].xpValue = gems[k].xpValue
                /\ gems'[k].isCollected <=> (gems[k].isCollected \/ k \in taken)
           /\ Earned(player') = Earned(player) + SumXp(gems, taken)
  /\ pc \in {"skills", "projEnemy"} =>
       /\ SubSeq(gems', 1, Len(gems)) = gems
       /\ \A k \in (Len(gems) + 1)..Len(gems') :
            /\ ~gems'[k].isCollected
            /\ \E j \in 1..Len(enemies) :
                 /\ gems'[k].xpValue = ENEMY_TYPES[enemies[j].type].xpValue
                 /\ enemies[j] \notin {enemies'[i] : i \in 1..Len(enemies')}
  /\ pc = "entities" =>
       \A k \in 1..Len(gems') : ~gems'[k].isCollected
  /\ (pc \notin {"gems", "boss"} /\ ~RestartStep) =>
       Earned(player') = Earned(player)

\* C34: a gem is dropped uncollected with the XP value of an enemy that
\* leaves the collection in that step; the gem pass collects exactly the uncollected gems within reach and
\* grants the player the sum of their XP values in that step; a collected gem
\* stays collected, no other step but the boss kill grants XP, and the gem
\* update of the next frame leaves no collected gem in the collection.
GemGrantsXpOnce == [][GemStep]_vars

\* C34: the gem collected in the last frame has left the collection
CollectedGemRemoved ==
  /\ pc = "bossSpawn" /\ hist.frames = 2
  /\ hist.gemReach # {} /\ gems = <<>>
  /\ Earned(player) > 0

ProjectileAgeStep ==
  pc = "entities" =>
    LET stay == {i \in 1..Len(projectiles) :
                   projectiles[i].age + deltaTime < ProjectileLifetime}
    IN  /\ Len(projectiles') = Cardinality(stay)
        /\ \A k \in 1..Len(projectiles') :
             \E i \in stay :
               projectiles'[k] = [projectiles[i] EXCEPT !.age = @ + deltaTime]

\* C35: the projectile update of a frame removes every projectile whose age
\* reaches the lifetime of 2 s in it and ages the others by dt; between
\* frames the collection holds no projectile of age 2 s or more.
ExpiredProjectilesLeave ==
  /\ [](pc = "idle" =>
          \A i \in 1..Len(projectiles) : projectiles[i].age < ProjectileLifetime)
  /\ [][ProjectileAgeStep]_vars

\* C35: a projectile fired in a frame of 60 s has expired in the projectile
\* update of that frame
ProjectileExpiredInFrame ==
  /\ pc = "bossSpawn" /\ deltaTime = 60000
  /\ player.fireTimer = 0 /\ projectiles = <<>>

WeaponUpgradeStep ==
  pc = "weapon" =>
    /\ hist'.upgrades.shotgun # hist.upgrades.shotgun =>
         LET w == player.shotgun
             v == player'.shotgun
         IN  /\ v.level = w.level + 1
             /\ v.fireRate = w.fireRate
             /\ IF v.level % 2 = 0
                THEN v.projectileCount = w.projectileCount + 1
                       /\ v.damage = w.damage
                ELSE v.projectileCount = w.projectileCount
                       /\ v.damage = (w.damage * 12) \div 10
             /\ player'.pistol = player.pistol
    /\ hist'.upgrades.pistol # hist.upgrades.pistol =>
         /\ player'.pistol.level = player.pistol.level + 1
         /\ player'.pistol.projectileCount = 1
         /\ player'.shotgun = player.shotgun

\* C36: Weapon.upgrade raises the level by 1; a shotgun upgrade reaching an
\* even level adds one projectile and keeps the damage, one reaching an odd
\* level multiplies the damage by 1.2 and keeps the count, so after n
\* upgrades the shotgun fires 3 + floor((n + 1) / 2) projectiles; the pistol
\* keeps firing 1.
ShotgunAlternates ==
  /\ [](pc = "weapon" =>
          /\ player.shotgun.level = 1 + hist.upgrades.shotgun
          /\ player.shotgun.projectileCount = 3 + ((hist.upgrades.shotgun + 1) \div 2)
          /\ player.pistol.level = 1 + hist.upgrades.pistol
          /\ player.pistol.projectileCount = 1)
  /\ [][WeaponUpgradeStep]_vars

\* C36: the shotgun after three upgrades: level 4, five projectiles, the
\* damage raised once
ShotgunAfterThree ==
  /\ pc = "weapon" /\ hist.upgrades.shotgun = 3
  /\ player.shotgun.level = 4 /\ player.shotgun.projectileCount = 5
  /\ player.shotgun.damage = 1800

\* C37: destroying an entity twice does not happen: destroy() runs at most
\* once on a Boss object, over frames, victory, game over and restart.
NoBossDestroyedTwice == hist.bossDestroys <= 1

\* C37: restart() after a victory has run destroy() on the boss that
\* triggerVictory had destroyed
RestartDestroysDeadBoss ==
  hist.call = "restart" /\ hist.bossDestroys = 2

\* the PLAYING phase on the flags
Playing == ~gm.isPaused /\ ~gm.isGameOver /\ ~gm.isVictory

\* C38: whenever the phase is PLAYING, the number of upgrades applied in the
\* run is the player's level less 1.
LevelUpsMatchedBySelections ==
  Playing => hist.applied = player.level - 1

\* C38: two gems have raised the level twice in one frame, and the one
\* selection of the menu has resumed the run
TwoLevelsOneSelection ==
  /\ pc = "idle" /\ Playing
  /\ player.level = 3 /\ hist.applied = 1

\* C39: at most one animation-frame callback is scheduled at any time, so
\* update() runs at most once per rendered frame.
OneLoopScheduled == loops <= 1

\* C39: restart() has scheduled a callback beside the one still running
TwoLoopsAfterRestart == hist.call = "restart" /\ loops = 2

\* ---------------------------------------------------------------- liveness
\* the callbacks of requestAnimationFrame keep coming and every started
\* update() runs to its end
Frame ==
  \/ AnimateStop \/ AnimatePaused \/ AnimateRun
  \/ UpdateWave \/ UpdatePlayer \/ UpdateSpawner \/ UpdateSkills
  \/ UpdateEntities \/ BossSpawnCheck \/ UpdateBoss \/ SlowMoStep
  \/ CheckPlayerEnemy \/ CheckProjectileEnemy \/ CheckGems

\* frames keep arriving and an open level-up menu is answered; nobody is
\* bound to press the restart button
SpecLive == Init /\ [][Next]_vars /\ WF_vars(Frame) /\ WF_vars(SelectUpgrade)

VictoryPending == gm.isVictory /\ gm.slowMoTimer > 0

\* the states in which the model's bounds, not the program, stop the run: the
\* next update() would be frame MaxFrames + 1, or the spawner would add enemy
\* MaxEnemies + 1
BoundReached ==
  \/ pc = "idle" /\ ~gm.isPaused /\ hist.frames >= MaxFrames
  \/ /\ pc = "spawner" /\ Len(enemies) >= MaxEnemies
     /\ spawnTimer + deltaTime >= (baseInterval * wave.spawnMult) \div 10

\* C9: from every state of the victory-pending window the run reaches the
\* victory screen, unless it is restarted or leaves the bounds of the model.
PendingLeadsToVictory ==
  VictoryPending ~> (ui.victoryShown \/ ~gm.isVictory \/ BoundReached)

====
